---- MODULE Spec2Model ----
(***************************************************************************)
(* A model of csbluegem.py: the Client facade (client.py), the HTTP        *)
(* transport (http.py), the validation helpers (utils.py) and the Filter   *)
(* and enumeration types (types.py).                                       *)
(*                                                                         *)
(* Representation of Python values:                                        *)
(*   Optional[T]   <<>> is None, <<v>> is the value v.                      *)
(*   Enum member   a record [name, value]: the member's name and its value  *)
(*                 (the wire string).                                      *)
(*   float (wear)  [nan, hi, lo]: the decimal fixed-point number            *)
(*                 hi * 10^-7 + lo * 10^-14 with 0 <= lo < 10^7, or NaN.    *)
(*   float (price, filter bound)  an integer.                              *)
(*   datetime      an integer count of milliseconds since the epoch.       *)
(*   JSON value    a record tagged by t: null, str, num, dict, list.       *)
(*   dict          a function whose domain is the set of keys.             *)
(***************************************************************************)
EXTENDS Integers, Sequences, FiniteSets, TLC

VARIABLES
    pc,        \* position of the caller's coroutine: idle, awaiting, done
    op,        \* the operation called: search, pattern_data, pricecheck
    args,      \* the arguments of the call
    request,   \* what the call handed to session.request, <<>> when nothing
    sent,      \* number of HTTP requests issued on the session so far
    sent0,     \* value of sent when the current call started
    response,  \* the HTTP response received, <<>> when none
    transport, \* outcome of HTTPClient.request, <<>> when none
    outcome,   \* outcome of the Client operation, <<>> when none
    http,      \* the Client's HTTPClient: base_url, user_agent, session
    vin,       \* validator development: the input of the pure function
    vout,      \* validator development: its result, <<>> before it is applied
    tasks,     \* lifetime development: the calls made on the client, each with
               \* the local variables of its own coroutine
    session,   \* the aiohttp session: closed, close() calls, releases
    scope,     \* the async with block of the client: none, inside, exited
    supplied   \* the session argument of Client(): <<>> when none was given,
               \* else the reference to the caller's session

vars ==
    <<pc, op, args, request, sent, sent0, response, transport, outcome, http, vin, vout,
      tasks, session, scope, supplied>>

None == <<>>
Some(v) == <<v>>

----------------------------------------------------------------------------
(* Bounds of the model.                                                    *)

\* A call supplies at most this many optional values: each optional argument
\* given a non-default value counts one, a filters sequence counts one per
\* filter (an empty sequence counts one).
MaxSupplied == 2
\* Requests issued on one session before the model stops calling.
MaxRequests == 2
\* Patterns are drawn from -PatternMargin .. MaxPattern + PatternMargin.
PatternMargin == 3
\* Calls made on one client in the lifetime development.
MaxTasks == 2
\* Explicit calls of Client.close in the lifetime development.
MaxCloses == 1

----------------------------------------------------------------------------
(* types.py: the enumerations. Each set holds some of the members of the   *)
(* class; the members are told apart by name and value only.               *)

Member(n, v) == [name |-> n, value |-> v]

Item == { Member("Karambit", "Karambit"), Member("ClassicKnife", "Classic Knife") }

Currency == { Member("USD", "USD"), Member("EUR", "EUR") }

ItemType == { Member("StatTrak", "stattrak"), Member("Normal", "normal") }

Order == { Member("Asc", "ASC"), Member("Desc", "DESC") }

SortKey == { Member("Pattern", "pattern"), Member("Date", "date"), Member("Price", "price") }

Origin == { Member("Buff", "Buff"), Member("C5Game", "c5game") }

FilterType == { Member("PlaysideBlue", "playside_blue"),
                Member("BacksideGold", "backside_gold") }

\* FilterType defines no __str__: str() and format() of a plain Enum member
\* give "ClassName.MemberName".
FilterTypeStr(m) == "FilterType." \o m.name

----------------------------------------------------------------------------
(* Floats: wear values.                                                    *)

Float(h, l) == [nan |-> FALSE, hi |-> h, lo |-> l]
NaN == [nan |-> TRUE, hi |-> 0, lo |-> 0]

\* a <= b on floats; every comparison with NaN is false.
FloatLe(a, b) ==
    /\ ~a.nan
    /\ ~b.nan
    /\ \/ a.hi < b.hi
       \/ a.hi = b.hi /\ a.lo <= b.lo

Zero == Float(0, 0)
One == Float(10000000, 0)
\* 0.0000000000001
WearEpsilon == Float(0, 10)

----------------------------------------------------------------------------
(* utils.py: the validation helpers.                                       *)

MaxPattern == 1000

is_valid_pattern_exclusive(pattern) ==
    IF pattern # None THEN 0 < pattern[1] /\ pattern[1] < MaxPattern ELSE TRUE

is_valid_pattern(pattern) ==
    IF pattern # None THEN 0 <= pattern[1] /\ pattern[1] <= MaxPattern ELSE TRUE

is_valid_wear_zero(flt) == FloatLe(Zero, flt) /\ FloatLe(flt, One)

is_valid_wear(flt) == FloatLe(WearEpsilon, flt) /\ FloatLe(flt, One)

----------------------------------------------------------------------------
(* types.py: Filter.                                                       *)

FilterLimit == 100

Filter(type, min, max) == [type |-> type, min |-> min, max |-> max]

Filter_is_valid_inclusive(f) ==
    (0 <= f.min /\ f.min < FilterLimit /\ 0 < f.max /\ f.max <= FilterLimit) /\ f.max >= f.min

Filter_is_valid(f) ==
    (0 <= f.min /\ f.min < FilterLimit /\ 0 < f.max /\ f.max <= FilterLimit) /\ f.max > f.min

----------------------------------------------------------------------------
(* Python dict and exception helpers.                                      *)

EmptyDict == [k \in {} |-> None]

\* d[k] = v
Put(d, k, v) == [x \in (DOMAIN d) \cup {k} |-> IF x = k THEN v ELSE d[x]]

\* A parameter builder either raises or yields the params mapping.
Raise(exc, message) == [raised |-> TRUE, exc |-> exc, message |-> message, params |-> EmptyDict]
Built(params) == [raised |-> FALSE, exc |-> "", message |-> "", params |-> params]

EpochSeconds_floor(ms) == ms \div 1000

\* int(dt.timestamp()): whole seconds, truncated toward zero.
EpochSeconds(ms) == IF ms >= 0 THEN ms \div 1000 ELSE -((-ms) \div 1000)

----------------------------------------------------------------------------
(* client.py: the parameter builders.                                      *)

RECURSIVE expand_filters_first_checked(_, _, _)
expand_filters_first_checked(params, filters, i) ==
    IF i > Len(filters) THEN Built(params)
    ELSE LET filter == filters[i] IN
         IF i = 1 /\ ~Filter_is_valid(filter)
         THEN Raise("BadArgument", "a provided filter is invalid")
         ELSE expand_filters_first_checked(
                  Put(Put(params, filter.type.value \o "_min", filter.min),
                      FilterTypeStr(filter.type) \o "_max", filter.max),
                  filters, i + 1)

\* for filter in filters: validate, then add the two entries of the filter.
RECURSIVE expand_filters(_, _, _)
expand_filters(params, filters, i) ==
    IF i > Len(filters) THEN Built(params)
    ELSE LET filter == filters[i] IN
         IF ~Filter_is_valid(filter)
         THEN Raise("BadArgument", "a provided filter is invalid")
         ELSE expand_filters(
                  Put(Put(params, filter.type.value \o "_min", filter.min),
                      FilterTypeStr(filter.type) \o "_max", filter.max),
                  filters, i + 1)

\* Client.search, up to the request: params, or the BadArgument raised.
search_params(a) ==
    LET p0 == Put(Put(Put(Put(EmptyDict, "skin", a.skin.value), "currency", a.currency.value),
                      "sort", a.sort.value), "order", a.order.value)
        p1 == IF a.type # None THEN Put(p0, "type", a.type[1].value) ELSE p0
    IN
    IF a.pattern # None /\ ~is_valid_pattern(a.pattern)
    THEN Raise("BadArgument", "pattern is invalid.")
    ELSE
    LET p2 == IF a.pattern # None THEN Put(p1, "pattern", a.pattern[1]) ELSE p1
        p3 == IF a.price_min # None THEN Put(p2, "price_min", a.price_min[1]) ELSE p2
        p4 == IF a.price_max # None THEN Put(p3, "price_max", a.price_max[1]) ELSE p3
    IN
    IF a.wear_min # None /\ ~is_valid_wear(a.wear_min[1])
    THEN Raise("BadArgument", "float_min is not in range.")
    ELSE
    LET p5 == IF a.wear_min # None THEN Put(p4, "wear_min", a.wear_min[1]) ELSE p4 IN
    IF a.wear_max # None /\ ~is_valid_wear(a.wear_max[1])
    THEN Raise("BadArgument", "float_max is not in range.")
    ELSE
    LET p6 == IF a.wear_max # None THEN Put(p5, "wear_max", a.wear_max[1]) ELSE p5
        p7 == IF a.origin # None THEN Put(p6, "origin", a.origin[1].value) ELSE p6
        p8 == IF a.date_min # None THEN Put(p7, "date_min", EpochSeconds(a.date_min[1])) ELSE p7
        p9 == IF a.date_max # None THEN Put(p8, "date_max", EpochSeconds(a.date_max[1])) ELSE p8
        p10 == IF a.limit # None THEN Put(p9, "limit", a.limit[1]) ELSE p9
        p11 == IF a.offset # None THEN Put(p10, "offset", a.offset[1]) ELSE p10
        p12 == IF a.pattern_data = TRUE THEN Put(p11, "pattern_data", "true") ELSE p11
    IN
    IF a.filters # None /\ Len(a.filters[1]) > 0
    THEN expand_filters(p12, a.filters[1], 1)
    ELSE Built(p12)

pattern_data_params_quantity_sent(a) ==
    LET p0 == Put(Put(Put(EmptyDict, "skin", a.item.value), "sort", a.sort.value),
                  "order", a.order.value)
        p1 == IF a.pattern # None THEN Put(p0, "pattern", a.pattern[1]) ELSE p0
        p2 == Put(p1, "quantity", IF a.quantity = TRUE THEN "true" ELSE "false")
        p3 == IF a.offset # None THEN Put(p2, "offset", a.offset[1]) ELSE p2
        p4 == IF a.limit # None THEN Put(p3, "limit", a.limit[1]) ELSE p3
    IN
    IF a.filters # None
    THEN expand_filters(p4, a.filters[1], 1)
    ELSE Built(p4)

\* Client.pattern_data, up to the request. The pattern is not validated.
pattern_data_params(a) ==
    LET p0 == Put(Put(Put(EmptyDict, "skin", a.item.value), "sort", a.sort.value),
                  "order", a.order.value)
        p1 == IF a.pattern # None THEN Put(p0, "pattern", a.pattern[1]) ELSE p0
        p2 == IF a.quantity = TRUE THEN Put(p1, "quantity", "true") ELSE p1
        p3 == IF a.offset # None THEN Put(p2, "offset", a.offset[1]) ELSE p2
        p4 == IF a.limit # None THEN Put(p3, "limit", a.limit[1]) ELSE p3
    IN
    IF a.filters # None
    THEN expand_filters(p4, a.filters[1], 1)
    ELSE Built(p4)

pricecheck_params_unchecked_wear(a) ==
    IF ~is_valid_pattern(Some(a.pattern))
    THEN Raise("BadArgument", "price check pattern must be 0 <= N <= 1000")
    ELSE Built(Put(Put(Put(EmptyDict, "skin", a.item.value), "pattern", a.pattern),
                   "wear", a.wear))

\* Client.pricecheck, up to the request.
pricecheck_params(a) ==
    IF ~is_valid_pattern(Some(a.pattern))
    THEN Raise("BadArgument", "price check pattern must be 0 <= N <= 1000")
    ELSE IF ~is_valid_wear(a.wear)
    THEN Raise("BadArgument", "provided float is invalid.")
    ELSE Built(Put(Put(Put(EmptyDict, "skin", a.item.value), "pattern", a.pattern),
                   "wear", a.wear))

----------------------------------------------------------------------------
(* JSON values and HTTP responses.                                         *)

JNull == [t |-> "null"]
JStr(s) == [t |-> "str", s |-> s]
JNum(n) == [t |-> "num", n |-> n]
JDict(d) == [t |-> "dict", d |-> d]
JList(l) == [t |-> "list", l |-> l]

\* The body on the wire: UTF-8 text that is the serialisation of the JSON
\* value json, or text that is no JSON document at all.
Wire(json) == [valid |-> TRUE, json |-> json]
NotJson == [valid |-> FALSE, json |-> JNull]

\* What response.read() and response.text() give for a body.
Bytes(body) == [t |-> "bytes", body |-> body]
Text(body) == [t |-> "text", body |-> body]

Response(status, content_type, body) ==
    [status |-> status, content_type |-> content_type, body |-> body]

\* Outcomes of a call: a returned value or a raised exception. code is the
\* status an HTTPException carries, <<>> for an exception that carries none.
Return(data) == [kind |-> "return", exc |-> "", code |-> None, message |-> JNull, data |-> data]
Raised(exc, code, message) ==
    [kind |-> "raise", exc |-> exc, code |-> code, message |-> message, data |-> JNull]

Bases_status_errors_apart ==
    [BlueGemError |-> "Exception", BadArgument |-> "BlueGemError",
     HTTPException |-> "BlueGemError", NotFound |-> "BlueGemError",
     ServerError |-> "BlueGemError", InvalidRequest |-> "HTTPException"]

\* errors.py: each exception class of the package and the class it extends.
Bases ==
    [BlueGemError |-> "Exception", BadArgument |-> "BlueGemError",
     HTTPException |-> "BlueGemError", NotFound |-> "HTTPException",
     ServerError |-> "HTTPException", InvalidRequest |-> "HTTPException"]

\* isinstance: an exception of class exc is caught by a handler for cls. A
\* class that is not of the package is caught under its own name only.
RECURSIVE IsInstance(_, _)
IsInstance(exc, cls) ==
    \/ exc = cls
    \/ exc \in DOMAIN Bases /\ IsInstance(Bases[exc], cls)

----------------------------------------------------------------------------
(* http.py: the transport.                                                 *)

BASE_URL == "https://api.csbluegem.com/v2"

Route(method, path) == [method |-> method, path |-> path]

\* from_json: loads(string); raises on text that is no JSON document.
from_json(text) ==
    IF text.body.valid THEN Return(text.body.json)
    ELSE Raised("JSONDecodeError", None, JStr(""))

json_text_or_bytes_by_media_type(resp) ==
    IF resp.content_type = Some("application/octet-stream") THEN Return(Bytes(resp.body))
    ELSE LET text == Text(resp.body) IN
         IF resp.content_type \in {Some("application/json"),
                                   Some("application/json; charset=utf-8")}
         THEN from_json(text)
         ELSE Return(text)

\* HTTPClient._json_text_or_bytes
json_text_or_bytes(resp) ==
    IF resp.content_type = Some("application/octet-stream") THEN Return(Bytes(resp.body))
    ELSE LET text == Text(resp.body) IN
         IF resp.content_type = Some("application/json") THEN from_json(text)
         ELSE Return(text)

\* data.get("message")
get_message(data) ==
    IF "message" \in DOMAIN data.d THEN data.d["message"] ELSE JNull

status_outcome_no_404(status, data, message) ==
    IF status >= 500 THEN Raised("ServerError", Some(status), JStr(""))
    ELSE IF 200 <= status /\ status < 300 THEN Return(data)
    ELSE Raised("HTTPException", Some(status), JStr("an unexpected error occurred: " \o message))

\* HTTPClient.request, lines 124-132: the outcome by status once the payload
\* carries no message. message is the text the f-string formats.
status_outcome(status, data, message) ==
    IF status >= 500 THEN Raised("ServerError", Some(status), JStr(""))
    ELSE IF status = 404 THEN Raised("NotFound", Some(status), JStr(""))
    ELSE IF 200 <= status /\ status < 300 THEN Return(data)
    ELSE Raised("HTTPException", Some(status), JStr("an unexpected error occurred: " \o message))

response_outcome_status_first(resp) ==
    LET got == json_text_or_bytes(resp) IN
    IF got.kind = "raise" THEN got
    ELSE LET data == got.data IN
         IF resp.status >= 500 \/ resp.status = 404
         THEN status_outcome(resp.status, data, "")
         ELSE IF data.t = "dict" /\ get_message(data) # JNull
         THEN Raised("InvalidRequest", Some(resp.status), get_message(data))
         ELSE status_outcome(resp.status, data, IF data.t = "dict" THEN "None" ELSE "")

\* HTTPClient.request, lines 114-132: the outcome for a received response.
response_outcome(resp) ==
    LET got == json_text_or_bytes(resp) IN
    IF got.kind = "raise" THEN got
    ELSE LET data == got.data IN
         IF data.t = "dict" /\ get_message(data) # JNull
         THEN Raised("InvalidRequest", Some(resp.status), get_message(data))
         ELSE status_outcome(resp.status, data, IF data.t = "dict" THEN "None" ELSE "")

\* HTTPClient.request, lines 103-113: what is handed to session.request.
http_request(self, route, params) ==
    [method |-> route.method,
     url |-> self.base_url \o route.path,
     headers |-> [x \in {"User-Agent"} |-> self.user_agent],
     params |-> params]

----------------------------------------------------------------------------
(* types.py: the response decoders.                                        *)

\* data[key] on a payload: KeyError on a dict without the key, TypeError on
\* anything that is no dict (str, bytes, list, number, null).
Subscript(data, key) ==
    IF data.t = "dict"
    THEN IF key \in DOMAIN data.d THEN Return(data.d[key])
         ELSE Raised("KeyError", None, JStr(key))
    ELSE Raised("TypeError", None, JStr(""))

\* data.get(key)
Get(data, key) ==
    IF data.t = "dict"
    THEN Return(IF key \in DOMAIN data.d THEN data.d[key] ELSE JNull)
    ELSE Raised("AttributeError", None, JStr(""))

\* The first of data[keys[i]], ..., data[keys[Len(keys)]] to raise, or a return.
RECURSIVE SubscriptAll(_, _, _)
SubscriptAll(data, keys, i) ==
    IF i > Len(keys) THEN Return(data)
    ELSE IF Subscript(data, keys[i]).kind = "raise" THEN Subscript(data, keys[i])
    ELSE SubscriptAll(data, keys, i + 1)

\* EnumClass(value): the member with that value, or ValueError.
EnumOf(enum, name, v) ==
    IF v.t = "str" /\ \E m \in enum : m.value = v.s
    THEN Return(CHOOSE m \in enum : m.value = v.s)
    ELSE Raised("ValueError", None, JStr(name))

\* cls(**data) of a slotted dataclass with exactly these fields.
Construct(data, fields) ==
    IF data.t = "dict" /\ DOMAIN data.d = fields THEN Return(data.d)
    ELSE Raised("TypeError", None, JStr(""))

\* SearchMeta._from_data
SearchMeta_from_data(data) ==
    LET r == SubscriptAll(data, <<"size", "total">>, 1) IN
    IF r.kind = "raise" THEN r
    ELSE Return([size |-> data.d["size"], total |-> data.d["total"]])

\* Screenshots._from_data
Screenshots_from_data(data) ==
    LET r == SubscriptAll(data, <<"inspect", "inspect_playside", "inspect_backside">>, 1) IN
    IF r.kind = "raise" THEN r
    ELSE Return([_inspect |-> data.d["inspect"],
                 inspect_playside |-> data.d["inspect_playside"],
                 inspect_backside |-> data.d["inspect_backside"]])

\* bool(value) of a decoded JSON value.
Truthy(v) ==
    /\ v.t # "null"
    /\ v.t = "str" => v.s # ""
    /\ v.t = "num" => v.n # 0

Screenshots_inspect_playside_first(self) ==
    IF Truthy(self.inspect_playside) THEN Return(self.inspect_playside)
    ELSE IF Truthy(self._inspect) THEN Return(self._inspect)
    ELSE Raised("RuntimeError", None, JStr("invalid data was received from the API"))

\* Screenshots.inspect
Screenshots_inspect(self) ==
    IF Truthy(self._inspect) THEN Return(self._inspect)
    ELSE IF Truthy(self.inspect_playside) THEN Return(self.inspect_playside)
    ELSE Raised("RuntimeError", None, JStr("invalid data was received from the API"))

PatternDataRequired ==
    <<"backside_blue", "backside_contour_blue", "backside_contour_purple", "backside_gold",
      "backside_purple", "playside_blue", "playside_contour_blue", "playside_contour_purple",
      "playside_gold", "playside_purple">>

PatternData_from_data_extra_by_screenshots(data) ==
    LET r == SubscriptAll(data, PatternDataRequired, 1) IN
    IF r.kind = "raise" THEN r
    ELSE
    LET screenshots_dict == Get(data, "screenshots").data
        extra_dict == Get(data, "extra").data
        screenshots == IF screenshots_dict # JNull
                       THEN Construct(screenshots_dict, {"csbluegem_screenshot", "aq_oiled"})
                       ELSE Return(JNull)
        extra == IF screenshots_dict # JNull
                 THEN Construct(extra_dict, {"similar_playside", "similar_backside",
                                             "csfloat_link", "search"})
                 ELSE Return(JNull)
    IN
    IF screenshots.kind = "raise" THEN screenshots
    ELSE IF extra.kind = "raise" THEN extra
    ELSE Return([stats |-> [k \in {PatternDataRequired[i] : i \in 1..Len(PatternDataRequired)}
                               |-> data.d[k]],
                 pattern |-> Get(data, "pattern").data,
                 quantity |-> Get(data, "quantity").data,
                 screenshots |-> IF screenshots_dict # JNull THEN Some(screenshots.data) ELSE None,
                 extra |-> IF screenshots_dict # JNull THEN Some(extra.data) ELSE None])

\* PatternData._from_data
PatternData_from_data(data) ==
    LET r == SubscriptAll(data, PatternDataRequired, 1) IN
    IF r.kind = "raise" THEN r
    ELSE
    LET screenshots_dict == Get(data, "screenshots").data
        extra_dict == Get(data, "extra").data
        screenshots == IF screenshots_dict # JNull
                       THEN Construct(screenshots_dict, {"csbluegem_screenshot", "aq_oiled"})
                       ELSE Return(JNull)
        extra == IF extra_dict # JNull
                 THEN Construct(extra_dict, {"similar_playside", "similar_backside",
                                             "csfloat_link", "search"})
                 ELSE Return(JNull)
    IN
    IF screenshots.kind = "raise" THEN screenshots
    ELSE IF extra.kind = "raise" THEN extra
    ELSE Return([stats |-> [k \in {PatternDataRequired[i] : i \in 1..Len(PatternDataRequired)}
                               |-> data.d[k]],
                 pattern |-> Get(data, "pattern").data,
                 quantity |-> Get(data, "quantity").data,
                 screenshots |-> IF screenshots_dict # JNull THEN Some(screenshots.data) ELSE None,
                 extra |-> IF extra_dict # JNull THEN Some(extra.data) ELSE None])

\* parse_epoch: datetime.fromtimestamp(epoch); a datetime is its milliseconds.
parse_epoch(epoch) ==
    IF epoch.t = "num" THEN Return(epoch.n * 1000)
    ELSE Raised("TypeError", None, JStr(""))

Sale_from_data_validating(data) ==
    LET r1 == SubscriptAll(data, <<"buff_id", "csfloat", "wear", "type">>, 1) IN
    IF r1.kind = "raise" THEN r1
    ELSE
    LET type == EnumOf(ItemType, "ItemType", data.d["type"]) IN
    IF type.kind = "raise" THEN type
    ELSE
    LET r2 == SubscriptAll(data, <<"pattern", "price", "epoch">>, 1) IN
    IF r2.kind = "raise" THEN r2
    ELSE
    IF ~(is_valid_wear(data.d["wear"].n) /\ is_valid_pattern(Some(data.d["pattern"].n)))
    THEN Raised("ValueError", None, JStr("Sale"))
    ELSE
    LET timestamp == parse_epoch(data.d["epoch"]) IN
    IF timestamp.kind = "raise" THEN timestamp
    ELSE
    LET r3 == SubscriptAll(data, <<"steam_inspect_link", "origin">>, 1) IN
    IF r3.kind = "raise" THEN r3
    ELSE
    LET origin == EnumOf(Origin, "Origin", data.d["origin"]) IN
    IF origin.kind = "raise" THEN origin
    ELSE
    LET raw_pattern_data == Get(data, "pattern_data").data
        pattern_data == IF raw_pattern_data # JNull
                        THEN PatternData_from_data(raw_pattern_data)
                        ELSE Return(JNull)
    IN
    IF pattern_data.kind = "raise" THEN pattern_data
    ELSE
    LET raw_screenshots_data == Subscript(data, "screenshots") IN
    IF raw_screenshots_data.kind = "raise" THEN raw_screenshots_data
    ELSE
    LET screenshots == Screenshots_from_data(raw_screenshots_data.data) IN
    IF screenshots.kind = "raise" THEN screenshots
    ELSE Return([buff_id |-> data.d["buff_id"],
                 csfloat |-> data.d["csfloat"],
                 wear |-> data.d["wear"],
                 type |-> type.data,
                 pattern |-> data.d["pattern"],
                 price |-> data.d["price"],
                 timestamp |-> timestamp.data,
                 steam_inspect_link |-> data.d["steam_inspect_link"],
                 origin |-> origin.data,
                 pattern_data |-> IF raw_pattern_data # JNull THEN Some(pattern_data.data)
                                  ELSE None,
                 screenshots |-> screenshots.data])

\* Sale._from_data
Sale_from_data(data) ==
    LET r1 == SubscriptAll(data, <<"buff_id", "csfloat", "wear", "type">>, 1) IN
    IF r1.kind = "raise" THEN r1
    ELSE
    LET type == EnumOf(ItemType, "ItemType", data.d["type"]) IN
    IF type.kind = "raise" THEN type
    ELSE
    LET r2 == SubscriptAll(data, <<"pattern", "price", "epoch">>, 1) IN
    IF r2.kind = "raise" THEN r2
    ELSE
    LET timestamp == parse_epoch(data.d["epoch"]) IN
    IF timestamp.kind = "raise" THEN timestamp
    ELSE
    LET r3 == SubscriptAll(data, <<"steam_inspect_link", "origin">>, 1) IN
    IF r3.kind = "raise" THEN r3
    ELSE
    LET origin == EnumOf(Origin, "Origin", data.d["origin"]) IN
    IF origin.kind = "raise" THEN origin
    ELSE
    LET raw_pattern_data == Get(data, "pattern_data").data
        pattern_data == IF raw_pattern_data # JNull
                        THEN PatternData_from_data(raw_pattern_data)
                        ELSE Return(JNull)
    IN
    IF pattern_data.kind = "raise" THEN pattern_data
    ELSE
    LET raw_screenshots_data == Subscript(data, "screenshots") IN
    IF raw_screenshots_data.kind = "raise" THEN raw_screenshots_data
    ELSE
    LET screenshots == Screenshots_from_data(raw_screenshots_data.data) IN
    IF screenshots.kind = "raise" THEN screenshots
    ELSE Return([buff_id |-> data.d["buff_id"],
                 csfloat |-> data.d["csfloat"],
                 wear |-> data.d["wear"],
                 type |-> type.data,
                 pattern |-> data.d["pattern"],
                 price |-> data.d["price"],
                 timestamp |-> timestamp.data,
                 steam_inspect_link |-> data.d["steam_inspect_link"],
                 origin |-> origin.data,
                 pattern_data |-> IF raw_pattern_data # JNull THEN Some(pattern_data.data)
                                  ELSE None,
                 screenshots |-> screenshots.data])

\* for d in data: the elements a payload iterates to, or TypeError.
Iterate(data) ==
    IF data.t = "list" THEN Return(data.l)
    ELSE IF data.t = "dict" /\ DOMAIN data.d = {} THEN Return(<<>>)
    ELSE IF data.t = "dict"
    THEN Return(<<JStr(CHOOSE k \in DOMAIN data.d : TRUE)>>)
    ELSE IF data.t = "str"
    THEN Return(IF data.s = "" THEN <<>> ELSE <<JStr(data.s)>>)
    ELSE Raised("TypeError", None, JStr(""))

RECURSIVE Sales_from_data_skipping(_, _, _)
Sales_from_data_skipping(items, i, acc) ==
    IF i > Len(items) THEN Return(acc)
    ELSE LET r == Sale_from_data(items[i]) IN
         IF r.kind = "raise" THEN Sales_from_data_skipping(items, i + 1, acc)
         ELSE Sales_from_data_skipping(items, i + 1, Append(acc, r.data))

\* [Sale._from_data(d) for d in items]: the decoded list so far, or the
\* first exception.
RECURSIVE Sales_from_data(_, _, _)
Sales_from_data(items, i, acc) ==
    IF i > Len(items) THEN Return(acc)
    ELSE LET r == Sale_from_data(items[i]) IN
         IF r.kind = "raise" THEN r
         ELSE Sales_from_data(items, i + 1, Append(acc, r.data))

RECURSIVE PatternDatas_from_data(_, _, _)
PatternDatas_from_data(items, i, acc) ==
    IF i > Len(items) THEN Return(acc)
    ELSE LET r == PatternData_from_data(items[i]) IN
         IF r.kind = "raise" THEN r
         ELSE PatternDatas_from_data(items, i + 1, Append(acc, r.data))


\* int(data) of a transport result. Text and bytes that spell an integer
\* convert; a JSON string converts when it spells one of the model's numbers.
int_of(data) ==
    IF data.t = "num" THEN Return(data.n)
    ELSE IF data.t \in {"text", "bytes"}
    THEN IF data.body.valid /\ data.body.json.t = "num" THEN Return(data.body.json.n)
         ELSE Raised("ValueError", None, JStr(""))
    ELSE IF data.t = "str" THEN Raised("ValueError", None, JStr(""))
    ELSE Raised("TypeError", None, JStr(""))

\* Client.search, line 213.
search_result(data) ==
    LET m == Subscript(data, "meta") IN
    IF m.kind = "raise" THEN m
    ELSE
    LET meta == SearchMeta_from_data(m.data) IN
    IF meta.kind = "raise" THEN meta
    ELSE
    LET s == Subscript(data, "sales") IN
    IF s.kind = "raise" THEN s
    ELSE
    LET items == Iterate(s.data) IN
    IF items.kind = "raise" THEN items
    ELSE
    LET sales == Sales_from_data(items.data, 1, <<>>) IN
    IF sales.kind = "raise" THEN sales
    ELSE Return([meta |-> meta.data, sales |-> sales.data])

\* PatternDataResponse._from_data
PatternDataResponse_from_data(api_data) ==
    LET m == Subscript(api_data, "meta") IN
    IF m.kind = "raise" THEN m
    ELSE
    LET meta == SearchMeta_from_data(m.data) IN
    IF meta.kind = "raise" THEN meta
    ELSE
    LET d == Subscript(api_data, "data") IN
    IF d.kind = "raise" THEN d
    ELSE
    LET items == Iterate(d.data) IN
    IF items.kind = "raise" THEN items
    ELSE
    LET pattern_data == PatternDatas_from_data(items.data, 1, <<>>) IN
    IF pattern_data.kind = "raise" THEN pattern_data
    ELSE Return([meta |-> meta.data, pattern_data |-> pattern_data.data])

\* What the operation does with the payload the transport returned.
decode(o, data) ==
    IF o = "search" THEN search_result(data)
    ELSE IF o = "pattern_data" THEN PatternDataResponse_from_data(data)
    ELSE int_of(data)

\* The operation's outcome for the outcome t of its awaited request: an
\* exception of the transport propagates unchanged.
operation_outcome(o, t) == IF t.kind = "raise" THEN t ELSE decode(o, t.data)

----------------------------------------------------------------------------
(* The values calls and responses are drawn from.                          *)

USD == Member("USD", "USD")
Date == Member("Date", "date")
Pattern == Member("Pattern", "pattern")
Desc == Member("Desc", "DESC")
PlaysideBlue == Member("PlaysideBlue", "playside_blue")
BacksideGold == Member("BacksideGold", "backside_gold")

PatternSamples == {-1, 0, MaxPattern, MaxPattern + 1}

\* 0.0, 0.0000000000001, 1.0, 1.0000001
WearSamples == {Zero, WearEpsilon, One, Float(10000001, 0)}

FilterSamples ==
    { Filter(PlaysideBlue, 0, 100), Filter(PlaysideBlue, 5, 60), Filter(BacksideGold, 10, 20),
      Filter(BacksideGold, 50, 50), Filter(PlaysideBlue, -1, 50) }

\* Datetimes, in milliseconds: whole and fractional seconds, and one before 1970.
DateSamples == {86400000, 86400999, -1500}

\* filters arguments of total cost at most n.
FilterArgs(n) == {None} \cup {Some(fs) : fs \in UNION {[1..m -> FilterSamples] : m \in 0..n}}

Cost(filters) ==
    IF filters = None THEN 0 ELSE IF Len(filters[1]) = 0 THEN 1 ELSE Len(filters[1])

\* The records that differ from base in exactly the fields S, each taking a
\* non-default value of choices.
RECURSIVE Fill(_, _, _)
Fill(base, S, choices) ==
    IF S = {} THEN {base}
    ELSE LET k == CHOOSE x \in S : TRUE IN
         UNION {Fill([base EXCEPT ![k] = v], S \ {k}, choices) : v \in choices[k]}

\* Client.search: the signature's defaults.
SearchDefaults(skin) ==
    [skin |-> skin, currency |-> USD, type |-> None, pattern |-> None, price_min |-> None,
     price_max |-> None, wear_min |-> None, wear_max |-> None, sort |-> Date, order |-> Desc,
     origin |-> None, date_min |-> None, date_max |-> None, limit |-> None, offset |-> None,
     pattern_data |-> FALSE, filters |-> None]

SearchChoices ==
    [currency |-> Currency \ {USD},
     type |-> {Some(m) : m \in ItemType},
     pattern |-> {Some(p) : p \in PatternSamples},
     price_min |-> {Some(10)},
     price_max |-> {Some(20)},
     wear_min |-> {Some(w) : w \in WearSamples},
     wear_max |-> {Some(w) : w \in WearSamples},
     sort |-> SortKey \ {Date},
     order |-> Order \ {Desc},
     origin |-> {Some(m) : m \in Origin},
     date_min |-> {Some(d) : d \in DateSamples},
     date_max |-> {Some(d) : d \in DateSamples},
     limit |-> {Some(5)},
     offset |-> {Some(3)},
     pattern_data |-> {TRUE}]

\* Client.pattern_data: the signature's defaults.
PatternDataDefaults(item) ==
    [item |-> item, pattern |-> None, sort |-> Pattern, order |-> Desc, quantity |-> FALSE,
     offset |-> None, limit |-> None, filters |-> None]

PatternDataChoices ==
    [pattern |-> {Some(p) : p \in PatternSamples},
     sort |-> SortKey \ {Pattern},
     order |-> Order \ {Desc},
     quantity |-> {TRUE},
     offset |-> {Some(3)},
     limit |-> {Some(5)}]

\* The calls that supply at most n optional values.
CallArgs(defaults, choices, n) ==
    UNION { UNION { {[a EXCEPT !.filters = f] : a \in Fill(defaults, S, choices)}
                    : S \in {T \in SUBSET (DOMAIN choices) : Cardinality(T) + Cost(f) <= n} }
            : f \in FilterArgs(n) }

SearchArgs == UNION {CallArgs(SearchDefaults(skin), SearchChoices, MaxSupplied) : skin \in Item}

PatternDataArgs ==
    UNION {CallArgs(PatternDataDefaults(item), PatternDataChoices, MaxSupplied) : item \in Item}

\* The wear samples and 0.5.
PricecheckArgs == [item : Item, pattern : PatternSamples, wear : WearSamples \cup {Float(5000000, 0)}]


\* Response bodies.
MetaBody == JDict([size |-> JNum(0), total |-> JNum(0)])
SearchBody == Wire(JDict([meta |-> MetaBody, sales |-> JList(<<>>)]))
PatternBody == Wire(JDict([meta |-> MetaBody, data |-> JList(<<>>)]))
PriceBody == Wire(JNum(1500))
MessageBody == Wire(JDict([message |-> JStr("unknown skin")]))
EmptyMessageBody == Wire(JDict([message |-> JStr("")]))
NullMessageBody == Wire(JDict([message |-> JNull]))
MessageSearchBody ==
    Wire(JDict([meta |-> MetaBody, sales |-> JList(<<>>), message |-> JStr("unknown skin")]))
EmptyBody == Wire(JDict(EmptyDict))

Bodies ==
    { SearchBody, PatternBody, PriceBody, MessageBody, EmptyMessageBody, NullMessageBody,
      MessageSearchBody, EmptyBody, NotJson }

ContentTypes ==
    { Some("application/json"), Some("application/json; charset=utf-8"), Some("text/html"),
      Some("application/octet-stream"), None }

Statuses == {100, 199, 200, 204, 299, 300, 302, 400, 403, 404, 405, 499, 500, 503, 599}

\* Every response of the transport development.
AllResponses == {Response(st, ct, b) : st \in Statuses, ct \in ContentTypes, b \in Bodies}

\* The responses of the facade development: one of each outcome.
FacadeResponses ==
    {Response(st, Some("application/json"), b) :
        st \in {200, 400, 404, 503}, b \in {SearchBody, PatternBody, PriceBody, MessageBody}}

\* d without the key k.
Without(d, k) == [x \in (DOMAIN d) \ {k} |-> d[x]]

\* The links a screenshots object carries: null, empty, a URL.
LinkSamples == {JNull, JStr(""), JStr("https://csbluegem.com/a.png")}
PlaysideSamples == {JNull, JStr(""), JStr("https://csbluegem.com/p.png")}

\* The screenshots objects of sales.
ScreenshotsObjects ==
    { JDict([inspect |-> i, inspect_playside |-> p, inspect_backside |-> JNull]) :
        i \in LinkSamples, p \in PlaysideSamples }

ScreenshotsObject ==
    JDict([inspect |-> JStr("https://csbluegem.com/a.png"),
           inspect_playside |-> JNull, inspect_backside |-> JNull])

\* A pattern-data object with its ten statistics and nothing optional.
PatternDataObject ==
    [backside_blue |-> JNum(11), backside_contour_blue |-> JNum(12),
     backside_contour_purple |-> JNum(13), backside_gold |-> JNum(14),
     backside_purple |-> JNum(15), playside_blue |-> JNum(16),
     playside_contour_blue |-> JNum(17), playside_contour_purple |-> JNum(18),
     playside_gold |-> JNum(19), playside_purple |-> JNum(20)]

PatternDataScreenshotsObject ==
    JDict([csbluegem_screenshot |-> JStr("https://csbluegem.com/s.png"),
           aq_oiled |-> JStr("https://csbluegem.com/o.png")])

PatternDataExtraObject ==
    JDict([similar_playside |-> JStr("https://csbluegem.com/p.png"),
           similar_backside |-> JStr("https://csbluegem.com/b.png"),
           csfloat_link |-> JStr("https://csfloat.com/db"),
           search |-> JStr("https://csbluegem.com/search")])

\* Pattern-data objects: with each combination of the optional blocks, with a
\* null or an incomplete screenshots block, and with one statistic missing.
PatternDataObjects ==
    { JDict(PatternDataObject),
      JDict(Put(Put(PatternDataObject, "pattern", JNum(661)), "quantity", JNum(3))),
      JDict(Put(PatternDataObject, "screenshots", PatternDataScreenshotsObject)),
      JDict(Put(PatternDataObject, "extra", PatternDataExtraObject)),
      JDict(Put(Put(PatternDataObject, "screenshots", PatternDataScreenshotsObject),
                "extra", PatternDataExtraObject)),
      JDict(Put(PatternDataObject, "screenshots", JNull)),
      JDict(Put(PatternDataObject, "screenshots",
                JDict([csbluegem_screenshot |-> JStr("https://csbluegem.com/s.png")]))) }
    \cup { JDict(Without(PatternDataObject, k)) : k \in DOMAIN PatternDataObject }

\* A sale object with every field Sale._from_data reads and no pattern data.
SaleObject ==
    [buff_id |-> JNum(7), csfloat |-> JStr("https://csfloat.com/item/7"),
     wear |-> JNum(Float(1234567, 0)), type |-> JStr("normal"), pattern |-> JNum(661),
     price |-> JNum(1500), epoch |-> JNum(86400),
     steam_inspect_link |-> JStr("steam://rungame/730"), origin |-> JStr("Buff"),
     screenshots |-> ScreenshotsObject]

\* Sale objects: complete, with each pattern-data object as their block or a
\* null in its place, with one field missing, with an unknown type, and with
\* each sample of wear, pattern and screenshots.
SaleObjects ==
    { JDict(SaleObject), JDict(Put(SaleObject, "pattern_data", JNull)),
      JDict(Put(SaleObject, "type", JStr("souvenir"))),
      JDict(Without(Put(SaleObject, "type", JStr("souvenir")), "epoch")),
      JDict(Put(SaleObject, "screenshots", JDict([inspect |-> JNull]))) }
    \cup { JDict(Put(SaleObject, "pattern_data", b)) : b \in PatternDataObjects }
    \cup { JDict(Without(SaleObject, k)) : k \in DOMAIN SaleObject }
    \cup { JDict(Put(SaleObject, "wear", JNum(w))) : w \in WearSamples }
    \cup { JDict(Put(SaleObject, "pattern", JNum(n))) : n \in PatternSamples }
    \cup { JDict(Put(SaleObject, "screenshots", o)) : o \in ScreenshotsObjects }

\* Payloads of /search: one sale, two sales with the complete one first, and
\* responses that lack meta, sales or a field of meta.
SearchPayloads ==
    { JDict([meta |-> MetaBody, sales |-> JList(<<o>>)]) : o \in SaleObjects }
    \cup { JDict([meta |-> MetaBody, sales |-> JList(<<JDict(SaleObject), o>>)]) :
             o \in { JDict(Without(SaleObject, "epoch")),
                     JDict(Put(SaleObject, "pattern_data", JDict(PatternDataObject))),
                     JDict(Put(SaleObject, "wear", JNum(Zero))) } }
    \cup { JDict([sales |-> JList(<<JDict(SaleObject)>>)]),
           JDict([meta |-> MetaBody]),
           JDict([meta |-> JDict([total |-> JNum(0)]), sales |-> JList(<<JDict(SaleObject)>>)]) }

\* Payloads of /patterndata.
PatternDataPayloads ==
    { JDict([meta |-> MetaBody, data |-> JList(<<o>>)]) : o \in PatternDataObjects }
    \cup { JDict([meta |-> MetaBody,
                  data |-> JList(<<JDict(PatternDataObject),
                                   JDict(Put(PatternDataObject, "extra",
                                             PatternDataExtraObject))>>)]),
           JDict([data |-> JList(<<JDict(PatternDataObject)>>)]),
           JDict([meta |-> MetaBody]) }

\* The responses of the decoder development: successes that carry a payload.
DecodeResponses ==
    {Response(200, Some("application/json"), Wire(d)) :
        d \in SearchPayloads \cup PatternDataPayloads \cup {JNum(1500)}}

\* The calls of the transport development: the defaults, and one price check.
TransportSearchArgs == {SearchDefaults(Member("Karambit", "Karambit"))}
TransportPatternDataArgs == {PatternDataDefaults(Member("Karambit", "Karambit"))}
TransportPricecheckArgs ==
    {[item |-> Member("ClassicKnife", "Classic Knife"), pattern |-> 661, wear |-> One]}

----------------------------------------------------------------------------
(* The client as a state machine.                                          *)

\* HTTPClient.__init__
HTTPClient ==
    [base_url |-> BASE_URL,
     user_agent |-> "csbluegem.py v<version> - Python-<python> aiohttp-<aiohttp>",
     session |-> "session"]

HTTPClient_init_own_session(arg) == HTTPClient

\* HTTPClient.__init__ with the session argument arg: session or
\* aiohttp.ClientSession(). A ClientSession object is true, so a session
\* that is given is the one held; "session" is the one created otherwise.
HTTPClient_init(arg) ==
    [HTTPClient EXCEPT !.session = IF arg # None THEN arg[1] ELSE "session"]

\* The session HTTPClient.__init__ holds, open: closes counts the awaits of
\* session.close(), releases the times its connections were released.
OpenSession == [closed |-> FALSE, closes |-> 0, releases |-> 0]

\* A call that has not been made.
NoTask ==
    [pc |-> "idle", op |-> None, args |-> None, request |-> None, response |-> None,
     outcome |-> None]

NoTasks == [t \in 1..MaxTasks |-> NoTask]

Idle ==
    /\ pc = "idle"
    /\ op = None /\ args = None /\ request = None
    /\ response = None /\ transport = None /\ outcome = None

\* After Client(): nothing called, nothing sent.
Init ==
    /\ Idle
    /\ sent = 0 /\ sent0 = 0
    /\ http = HTTPClient
    /\ vin = None /\ vout = None
    /\ tasks = NoTasks /\ session = OpenSession /\ scope = "none"
    /\ supplied = None

\* An operation is called with arguments a: built is what its parameter
\* builder gives. It raises before any I/O, or hands its one request to the
\* session and suspends on it.
Call(o, a, built, route) ==
    /\ op' = Some(o)
    /\ args' = Some(a)
    /\ sent0' = sent
    /\ IF built.raised
       THEN /\ pc' = "done"
            /\ outcome' = Some(Raised(built.exc, None, JStr(built.message)))
            /\ request' = None
            /\ sent' = sent
       ELSE /\ pc' = "awaiting"
            /\ outcome' = None
            /\ request' = Some(http_request(http, route, built.params))
            /\ sent' = sent + 1
    /\ UNCHANGED <<response, transport, http, vin, vout, tasks, session, scope, supplied>>

\* Client.search, lines 150-211.
Search(S) ==
    /\ pc = "idle"
    /\ sent < MaxRequests
    /\ \E a \in S : Call("search", a, search_params(a), Route("GET", "/search"))

\* Client.pattern_data, lines 264-291.
PatternData(S) ==
    /\ pc = "idle"
    /\ sent < MaxRequests
    /\ \E a \in S :
        Call("pattern_data", a, pattern_data_params(a), Route("GET", "/patterndata"))

\* Client.pricecheck, lines 325-338.
Pricecheck(S) ==
    /\ pc = "idle"
    /\ sent < MaxRequests
    /\ \E a \in S : Call("pricecheck", a, pricecheck_params(a), Route("GET", "/pricecheck"))

Respond_retrying(R) ==
    /\ pc = "awaiting"
    /\ \E resp \in R :
        /\ response' = Some(resp)
        /\ transport' = Some(response_outcome(resp))
        /\ IF response_outcome(resp).exc = "ServerError"
           THEN /\ sent' = sent + 1
                /\ outcome' = None
                /\ pc' = "awaiting"
           ELSE /\ sent' = sent
                /\ outcome' = Some(operation_outcome(op[1], response_outcome(resp)))
                /\ pc' = "done"
    /\ UNCHANGED <<op, args, request, sent0, http, vin, vout, tasks, session, scope, supplied>>

\* The response arrives: HTTPClient.request maps it to its outcome, and the
\* operation decodes what the transport returned.
Respond(R) ==
    /\ pc = "awaiting"
    /\ \E resp \in R :
        /\ response' = Some(resp)
        /\ transport' = Some(response_outcome(resp))
        /\ outcome' = Some(operation_outcome(op[1], response_outcome(resp)))
    /\ pc' = "done"
    /\ UNCHANGED <<op, args, request, sent, sent0, http, vin, vout, tasks, session, scope,
                   supplied>>

\* session.request itself fails (no connection): aiohttp's error propagates.
ConnectionFails ==
    /\ pc = "awaiting"
    /\ transport' = Some(Raised("ClientError", None, JStr("")))
    /\ outcome' = Some(Raised("ClientError", None, JStr("")))
    /\ pc' = "done"
    /\ UNCHANGED <<op, args, request, response, sent, sent0, http, vin, vout, tasks, session, scope,
                   supplied>>

\* The caller has the outcome; the client is ready for the next call.
Finish ==
    /\ pc = "done"
    /\ pc' = "idle"
    /\ op' = None /\ args' = None /\ request' = None
    /\ response' = None /\ transport' = None /\ outcome' = None
    /\ sent0' = sent
    /\ UNCHANGED <<sent, http, vin, vout, tasks, session, scope, supplied>>

Next ==
    \/ Search(SearchArgs)
    \/ PatternData(PatternDataArgs)
    \/ Pricecheck(PricecheckArgs)
    \/ Respond(FacadeResponses)
    \/ ConnectionFails
    \/ Finish

Spec == Init /\ [][Next]_vars

\* The transport development: few calls, every response.
NextTransport ==
    \/ Search(TransportSearchArgs)
    \/ PatternData(TransportPatternDataArgs)
    \/ Pricecheck(TransportPricecheckArgs)
    \/ Respond(AllResponses)
    \/ ConnectionFails
    \/ Finish

SpecTransport == Init /\ [][NextTransport]_vars

\* The decoder development: few calls, every payload.
NextDecode ==
    \/ Search(TransportSearchArgs)
    \/ PatternData(TransportPatternDataArgs)
    \/ Pricecheck(TransportPricecheckArgs)
    \/ Respond(DecodeResponses)
    \/ ConnectionFails
    \/ Finish

SpecDecode == Init /\ [][NextDecode]_vars

----------------------------------------------------------------------------
(* The lifetime of one client: several calls, each a coroutine with its    *)
(* own local variables, on the one session, and the release of the         *)
(* session by close and by the exit of the async with block.               *)

\* The calls of the lifetime development: two price checks the builder
\* accepts and one it rejects, and the defaults of the other operations.
LifetimePricecheckArgs ==
    [item : {Member("Karambit", "Karambit")}, pattern : {661, MaxPattern + 1},
     wear : {One, Float(5000000, 0)}]

\* The responses of the lifetime development.
LifetimeResponses ==
    {Response(200, Some("application/json"), PriceBody),
     Response(200, Some("application/json"), SearchBody),
     Response(503, Some("application/json"), EmptyBody)}

\* await session.close() of aiohttp's ClientSession: the first call releases
\* the connections, a call on a closed session does nothing.
session_close(s) ==
    [closed |-> TRUE, closes |-> s.closes + 1,
     releases |-> IF s.closed THEN s.releases ELSE s.releases + 1]

Start_rebasing(t, o, a, built, route) ==
    /\ tasks' = [tasks EXCEPT ![t] =
                    IF built.raised
                    THEN [pc |-> "done", op |-> Some(o), args |-> Some(a), request |-> None,
                          response |-> None,
                          outcome |-> Some(Raised(built.exc, None, JStr(built.message)))]
                    ELSE [pc |-> "awaiting", op |-> Some(o), args |-> Some(a),
                          request |-> Some(http_request(http, route, built.params)),
                          response |-> None, outcome |-> None]]
    /\ sent' = IF built.raised THEN sent ELSE sent + 1
    /\ http' = IF built.raised THEN http
               ELSE [http EXCEPT !.base_url = http.base_url \o route.path]
    /\ UNCHANGED <<pc, op, args, request, sent0, response, transport, outcome, vin, vout,
                   session, scope, supplied>>

\* Call t is made: the operation builds its params in its own frame, then
\* raises BadArgument or hands its request to the session and suspends. No
\* attribute of the client or of its HTTPClient is assigned.
Start(t, o, a, built, route) ==
    /\ tasks' = [tasks EXCEPT ![t] =
                    IF built.raised
                    THEN [pc |-> "done", op |-> Some(o), args |-> Some(a), request |-> None,
                          response |-> None,
                          outcome |-> Some(Raised(built.exc, None, JStr(built.message)))]
                    ELSE [pc |-> "awaiting", op |-> Some(o), args |-> Some(a),
                          request |-> Some(http_request(http, route, built.params)),
                          response |-> None, outcome |-> None]]
    /\ sent' = IF built.raised THEN sent ELSE sent + 1
    /\ http' = http
    /\ UNCHANGED <<pc, op, args, request, sent0, response, transport, outcome, vin, vout,
                   session, scope, supplied>>

\* Client.search called while the session is open.
SearchTask ==
    \E t \in 1..MaxTasks :
        /\ tasks[t].pc = "idle"
        /\ ~session.closed
        /\ \E a \in TransportSearchArgs :
               Start(t, "search", a, search_params(a), Route("GET", "/search"))

\* Client.pattern_data called while the session is open.
PatternDataTask ==
    \E t \in 1..MaxTasks :
        /\ tasks[t].pc = "idle"
        /\ ~session.closed
        /\ \E a \in TransportPatternDataArgs :
               Start(t, "pattern_data", a, pattern_data_params(a), Route("GET", "/patterndata"))

\* Client.pricecheck called while the session is open.
PricecheckTask ==
    \E t \in 1..MaxTasks :
        /\ tasks[t].pc = "idle"
        /\ ~session.closed
        /\ \E a \in LifetimePricecheckArgs :
               Start(t, "pricecheck", a, pricecheck_params(a), Route("GET", "/pricecheck"))

Arrive_observed_by_all(t, resp) ==
    /\ tasks' = [u \in 1..MaxTasks |->
                    IF u = t
                    THEN [tasks[u] EXCEPT
                             !.pc = "done", !.response = Some(resp),
                             !.outcome = Some(operation_outcome(tasks[u].op[1],
                                                                response_outcome(resp)))]
                    ELSE IF tasks[u].pc = "awaiting"
                    THEN [tasks[u] EXCEPT
                             !.pc = "done",
                             !.outcome = Some(operation_outcome(tasks[u].op[1],
                                                                response_outcome(resp)))]
                    ELSE tasks[u]]
    /\ UNCHANGED <<pc, op, args, request, sent, sent0, response, transport, outcome, http,
                   vin, vout, session, scope, supplied>>

\* The response to the request of call t arrives: HTTPClient.request, in the
\* frame of that call, maps it to the outcome and the operation decodes it.
Arrive(t, resp) ==
    /\ tasks' = [tasks EXCEPT ![t] =
                    [tasks[t] EXCEPT
                        !.pc = "done", !.response = Some(resp),
                        !.outcome = Some(operation_outcome(tasks[t].op[1],
                                                           response_outcome(resp)))]]
    /\ UNCHANGED <<pc, op, args, request, sent, sent0, response, transport, outcome, http,
                   vin, vout, session, scope, supplied>>

RespondTask ==
    \E t \in 1..MaxTasks :
        /\ tasks[t].pc = "awaiting"
        /\ ~session.closed
        /\ \E resp \in LifetimeResponses : Arrive(t, resp)

\* session.request of call t fails: no connection, or the session was closed
\* under it.
FailTask ==
    \E t \in 1..MaxTasks :
        /\ tasks[t].pc = "awaiting"
        /\ tasks' = [tasks EXCEPT ![t] =
                        [tasks[t] EXCEPT
                            !.pc = "done",
                            !.outcome = Some(Raised("ClientError", None, JStr("")))]]
        /\ UNCHANGED <<pc, op, args, request, sent, sent0, response, transport, outcome,
                       http, vin, vout, session, scope, supplied>>

\* The caller cancels call t while it awaits its response.
CancelTask ==
    \E t \in 1..MaxTasks :
        /\ tasks[t].pc = "awaiting"
        /\ tasks' = [tasks EXCEPT ![t] =
                        [tasks[t] EXCEPT
                            !.pc = "cancelled",
                            !.outcome = Some(Raised("CancelledError", None, JStr("")))]]
        /\ UNCHANGED <<pc, op, args, request, sent, sent0, response, transport, outcome,
                       http, vin, vout, session, scope, supplied>>

\* Calls of Client.close made by the caller so far.
ExplicitCloses == session.closes - (IF scope = "exited" THEN 1 ELSE 0)

\* Client.close: HTTPClient.close awaits session.close().
Close ==
    /\ ExplicitCloses < MaxCloses
    /\ session' = session_close(session)
    /\ UNCHANGED <<pc, op, args, request, sent, sent0, response, transport, outcome, http,
                   vin, vout, tasks, scope, supplied>>

\* Client.__aenter__: returns the client.
Enter ==
    /\ scope = "none"
    /\ scope' = "inside"
    /\ UNCHANGED <<pc, op, args, request, sent, sent0, response, transport, outcome, http,
                   vin, vout, tasks, session, supplied>>

Exit_unless_raised ==
    /\ scope = "inside"
    /\ scope' = "exited"
    /\ session' = IF \E t \in 1..MaxTasks :
                       tasks[t].outcome # None /\ tasks[t].outcome[1].kind = "raise"
                  THEN session
                  ELSE session_close(session)
    /\ UNCHANGED <<pc, op, args, request, sent, sent0, response, transport, outcome, http,
                   vin, vout, tasks, supplied>>

\* Client.__aexit__: the block is left, normally or by an exception, and
\* close is awaited whatever the exception.
Exit ==
    /\ scope = "inside"
    /\ scope' = "exited"
    /\ session' = session_close(session)
    /\ UNCHANGED <<pc, op, args, request, sent, sent0, response, transport, outcome, http,
                   vin, vout, tasks, supplied>>

NextLifetime ==
    \/ Enter
    \/ SearchTask
    \/ PatternDataTask
    \/ PricecheckTask
    \/ RespondTask
    \/ FailTask
    \/ CancelTask
    \/ Close
    \/ Exit

SpecLifetime == Init /\ [][NextLifetime]_vars

\* After Client() or Client(session=...): the lifetime development with and
\* without a session of the caller's.
InitSupplied ==
    /\ Idle
    /\ sent = 0 /\ sent0 = 0
    /\ vin = None /\ vout = None
    /\ tasks = NoTasks /\ session = OpenSession /\ scope = "none"
    /\ supplied \in {None, Some("caller's session")}
    /\ http = HTTPClient_init(supplied)

SpecSupplied == InitSupplied /\ [][NextLifetime]_vars

\* The error development: calls the builders accept and reject, every
\* response.
NextErrors ==
    \/ Search(TransportSearchArgs)
    \/ PatternData(TransportPatternDataArgs)
    \/ Pricecheck(LifetimePricecheckArgs)
    \/ Respond(AllResponses)
    \/ ConnectionFails
    \/ Finish

SpecErrors == Init /\ [][NextErrors]_vars

----------------------------------------------------------------------------
(* The validation helpers and Filter._is_valid as pure functions: an input *)
(* is drawn, then the function is applied to it.                           *)

PatternInputs ==
    {[fn |-> "is_valid_pattern", x |-> None]} \cup
    {[fn |-> "is_valid_pattern", x |-> Some(p)] :
        p \in (0 - PatternMargin) .. (MaxPattern + PatternMargin)}

\* Around -1, 0, the epsilon, 0.5, 1 and 2, and NaN.
WearInputs ==
    {[fn |-> "is_valid_wear", x |-> NaN]} \cup
    {[fn |-> "is_valid_wear", x |-> Float(h, l)] :
        h \in {-10000000, -1, 0, 1, 5000000, 9999999, 10000000, 10000001, 20000000},
        l \in {0, 1, 9, 10, 11, 9999999}}

FilterInputs ==
    {[fn |-> "Filter._is_valid", x |-> Filter(t, lo, up)] :
        t \in FilterType,
        lo \in {-1, 0, 1, 50, 99, 100, 101},
        up \in {-1, 0, 1, 50, 99, 100, 101}}

\* The Screenshots objects decoded from the screenshots objects of sales.
InspectInputs ==
    {[fn |-> "Screenshots.inspect", x |-> Screenshots_from_data(o).data] :
        o \in ScreenshotsObjects}

InitValidators ==
    /\ Idle
    /\ sent = 0 /\ sent0 = 0
    /\ http = HTTPClient
    /\ \/ vin \in PatternInputs
       \/ vin \in WearInputs
       \/ vin \in FilterInputs
       \/ vin \in InspectInputs
    /\ vout = None
    /\ tasks = NoTasks /\ session = OpenSession /\ scope = "none"
    /\ supplied = None

ApplyPattern ==
    /\ vout = None
    /\ vin.fn = "is_valid_pattern"
    /\ vout' = Some(is_valid_pattern(vin.x))
    /\ UNCHANGED <<pc, op, args, request, sent, sent0, response, transport, outcome, http, vin, tasks, session, scope,
                   supplied>>

ApplyWear ==
    /\ vout = None
    /\ vin.fn = "is_valid_wear"
    /\ vout' = Some(is_valid_wear(vin.x))
    /\ UNCHANGED <<pc, op, args, request, sent, sent0, response, transport, outcome, http, vin, tasks, session, scope,
                   supplied>>

ApplyFilter ==
    /\ vout = None
    /\ vin.fn = "Filter._is_valid"
    /\ vout' = Some(Filter_is_valid(vin.x))
    /\ UNCHANGED <<pc, op, args, request, sent, sent0, response, transport, outcome, http, vin, tasks, session, scope,
                   supplied>>

\* The caller reads the inspect property of a decoded Screenshots.
ApplyInspect ==
    /\ vout = None
    /\ vin.fn = "Screenshots.inspect"
    /\ vout' = Some(Screenshots_inspect(vin.x))
    /\ UNCHANGED <<pc, op, args, request, sent, sent0, response, transport, outcome, http, vin, tasks, session, scope,
                   supplied>>

NextValidators == ApplyPattern \/ ApplyWear \/ ApplyFilter \/ ApplyInspect

SpecValidators == InitValidators /\ [][NextValidators]_vars

----------------------------------------------------------------------------
(* Properties.                                                             *)

IsCall(o) == pc # "idle" /\ op = Some(o)

\* The call raised BadArgument before anything was handed to the session.
RejectedLocally ==
    /\ pc = "done"
    /\ outcome # None
    /\ outcome[1].kind = "raise"
    /\ outcome[1].exc = "BadArgument"
    /\ request = None
    /\ sent = sent0

AnyFilterInvalid(filters) ==
    /\ filters # None
    /\ \E i \in 1..Len(filters[1]) : ~Filter_is_valid(filters[1][i])

\* C1: a pricecheck whose pattern fails is_valid_pattern or whose wear fails
\* is_valid_wear raises BadArgument, and no request has been issued on the
\* session when it does.
C1_PricecheckRejectsInvalid ==
    (IsCall("pricecheck") /\ (~is_valid_pattern(Some(args[1].pattern)) \/ ~is_valid_wear(args[1].wear)))
        => RejectedLocally

\* Scenario B: pricecheck(ClassicKnife, 1001, 0.5) has raised BadArgument.
C1_Witness ==
    /\ IsCall("pricecheck")
    /\ args[1] = [item |-> Member("ClassicKnife", "Classic Knife"), pattern |-> 1001,
                  wear |-> Float(5000000, 0)]
    /\ RejectedLocally

SearchInputInvalid(a) ==
    \/ a.pattern # None /\ ~is_valid_pattern(a.pattern)
    \/ a.wear_min # None /\ ~is_valid_wear(a.wear_min[1])
    \/ a.wear_max # None /\ ~is_valid_wear(a.wear_max[1])
    \/ AnyFilterInvalid(a.filters)

\* C2: a search with an invalid pattern, wear_min, wear_max or filter, at any
\* position of the filters sequence and whatever its other arguments, raises
\* BadArgument and issues no request.
C2_SearchRejectsInvalid ==
    (IsCall("search") /\ SearchInputInvalid(args[1])) => RejectedLocally

\* A search whose second filter is the invalid one has raised BadArgument.
C2_Witness ==
    /\ IsCall("search")
    /\ args[1].filters = Some(<<Filter(PlaysideBlue, 0, 100), Filter(BacksideGold, 50, 50)>>)
    /\ RejectedLocally

\* C3: a pattern_data call with a pattern outside 0..1000 or an invalid
\* filter raises BadArgument and issues no request.
C3_PatternDataRejectsInvalid ==
    (IsCall("pattern_data") /\
        (~is_valid_pattern(args[1].pattern) \/ AnyFilterInvalid(args[1].filters)))
        => RejectedLocally

\* The response was declared application/json and its body parsed to a dict.
PayloadIsDict(resp) ==
    /\ resp.content_type = Some("application/json")
    /\ resp.body.valid
    /\ resp.body.json.t = "dict"

HasMessageField(resp) == PayloadIsDict(resp) /\ "message" \in DOMAIN resp.body.json.d

Responded == pc = "done" /\ response # None /\ transport # None

\* C4 as claimed: whatever the status, a dict payload that contains a message
\* field makes the transport raise InvalidRequest with that status and message.
C4_AnyMessageFieldRaises ==
    (Responded /\ HasMessageField(response[1])) =>
        /\ transport[1] = Raised("InvalidRequest", Some(response[1].status),
                                 response[1].body.json.d["message"])
        /\ outcome = transport

\* C4, amended: whatever the status (2xx, 404 and >= 500 included), a dict
\* payload whose message field is present and not null makes the transport
\* raise InvalidRequest with that status and that message, ahead of every
\* other outcome.
C4_MessageRaisesInvalidRequest ==
    (Responded /\ HasMessageField(response[1]) /\ response[1].body.json.d["message"] # JNull) =>
        /\ transport[1] = Raised("InvalidRequest", Some(response[1].status),
                                 response[1].body.json.d["message"])
        /\ outcome = transport

\* Scenario C: status 200 with {"message": "unknown skin"} raised InvalidRequest.
C4_Witness ==
    /\ Responded
    /\ response[1] = Response(200, Some("application/json"), MessageBody)
    /\ transport[1].exc = "InvalidRequest"
    /\ transport[1].code = Some(200)
    /\ transport[1].message = JStr("unknown skin")

\* The transport obtained a payload, and it carries no message field.
NoMessageField(resp) ==
    /\ json_text_or_bytes(resp).kind = "return"
    /\ ~HasMessageField(resp)

\* C5: for a payload without a message field the outcome is decided by the
\* status alone: >= 500 raises ServerError with the status, 404 raises
\* NotFound, 2xx returns the payload unchanged, anything else raises the
\* generic HTTPException with the status.
C5_OutcomeByStatus ==
    (Responded /\ NoMessageField(response[1])) =>
        LET status == response[1].status
            t == transport[1]
        IN
        /\ status >= 500 => (t.kind = "raise" /\ t.exc = "ServerError" /\ t.code = Some(status))
        /\ status = 404 => (t.kind = "raise" /\ t.exc = "NotFound")
        /\ (200 <= status /\ status < 300) => t = Return(json_text_or_bytes(response[1]).data)
        /\ (status < 200 \/ (300 <= status /\ status < 500 /\ status # 404)) =>
               (t.kind = "raise" /\ t.exc = "HTTPException" /\ t.code = Some(status))

\* Scenario D: status 503 raised ServerError carrying 503.
C5_Witness ==
    /\ Responded
    /\ NoMessageField(response[1])
    /\ response[1].status = 503
    /\ transport[1].exc = "ServerError"
    /\ transport[1].code = Some(503)

BuilderOf(o, a) ==
    IF o = "search" THEN search_params(a)
    ELSE IF o = "pattern_data" THEN pattern_data_params(a)
    ELSE pricecheck_params(a)

\* C6: a call that passed local validation has issued exactly one request,
\* has no outcome while it waits and exactly one when it is done, whatever
\* that outcome is: nothing is retried.
C6_OneRequestPerCall ==
    (pc # "idle" /\ ~BuilderOf(op[1], args[1]).raised) =>
        /\ sent = sent0 + 1
        /\ request # None
        /\ pc = "awaiting" => outcome = None
        /\ pc = "done" => outcome # None

\* A search got a 503: ServerError is its outcome and one request was issued.
C6_Witness ==
    /\ pc = "done"
    /\ op = Some("search")
    /\ outcome # None
    /\ outcome[1].exc = "ServerError"
    /\ sent = sent0 + 1

Applied(fn) == vout # None /\ vin.fn = fn

\* C7: is_valid_pattern(p) is true exactly when p is None or 0 <= p <= 1000.
C7_PatternValidity ==
    Applied("is_valid_pattern") =>
        vout[1] = (vin.x = None \/ (0 <= vin.x[1] /\ vin.x[1] <= 1000))

\* 1000 was accepted, or 1001 was rejected.
C7_Witness ==
    /\ Applied("is_valid_pattern")
    /\ \/ vin.x = Some(1000) /\ vout = Some(TRUE)
       \/ vin.x = Some(1001) /\ vout = Some(FALSE)

\* C8: is_valid_wear(w) is true exactly when w is a number with
\* 0.0000000000001 <= w <= 1: 1.0 is accepted, 0.0 and everything above 1
\* rejected, everything from the epsilon up to 1 accepted.
C8_WearValidity ==
    Applied("is_valid_wear") =>
        vout[1] = /\ ~vin.x.nan
                  /\ \/ vin.x.hi = 0 /\ vin.x.lo >= 10
                     \/ 1 <= vin.x.hi /\ vin.x.hi <= 9999999
                     \/ vin.x.hi = 10000000 /\ vin.x.lo = 0

\* 1.0 was accepted.
C8_Witness ==
    /\ Applied("is_valid_wear")
    /\ vin.x = Float(10000000, 0)
    /\ vout = Some(TRUE)

\* C9: a Filter is valid exactly when 0 <= min < 100, 0 < max <= 100 and
\* max > min.
C9_FilterValidity ==
    Applied("Filter._is_valid") =>
        vout[1] = /\ 0 <= vin.x.min /\ vin.x.min < 100
                  /\ 0 < vin.x.max /\ vin.x.max <= 100
                  /\ vin.x.max > vin.x.min

\* (min=50, max=50) was rejected.
C9_Witness ==
    /\ Applied("Filter._is_valid")
    /\ vin.x.min = 50 /\ vin.x.max = 50
    /\ vout = Some(FALSE)

\* C10: the parameters dispatched by search and pattern_data hold, for every
\* filter passed, its min under <kind>_min and its max under <kind>_max, kind
\* being the wire string of the filter's type.
C10_FilterEntries ==
    (pc = "awaiting" /\ op[1] \in {"search", "pattern_data"} /\ args[1].filters # None) =>
        \A i \in 1..Len(args[1].filters[1]) :
            LET filter == args[1].filters[1][i]
                params == request[1].params
            IN
            /\ (filter.type.value \o "_min") \in DOMAIN params
            /\ (filter.type.value \o "_max") \in DOMAIN params
            /\ params[filter.type.value \o "_min"] = filter.min
            /\ params[filter.type.value \o "_max"] = filter.max

----------------------------------------------------------------------------
(* The query mappings of search and pattern_data.                          *)

\* The call built its mapping and handed the request to the session.
Dispatched(o) == IsCall(o) /\ request # None

OptionalSearchKeys ==
    {"type", "pattern", "price_min", "price_max", "wear_min", "wear_max", "origin",
     "date_min", "date_max", "limit", "offset"}

OptionalPatternDataKeys == {"pattern", "offset", "limit"}

\* The toggle's key is in the mapping, with the literal "true", exactly when
\* the toggle is enabled.
ToggleSent(p, key, enabled) ==
    /\ (key \in DOMAIN p) <=> enabled
    /\ key \in DOMAIN p => p[key] = "true"

\* C11: in the mapping built by search and by pattern_data, the key of each
\* optional input is present exactly when the input was supplied, and the key
\* of each toggle (pattern_data, quantity) is present, with the literal
\* "true", exactly when the toggle is enabled.
C11_OptionalKeysIffSupplied ==
    /\ Dispatched("search") =>
           /\ \A k \in OptionalSearchKeys :
                  (k \in DOMAIN request[1].params) <=> (args[1][k] # None)
           /\ ToggleSent(request[1].params, "pattern_data", args[1].pattern_data = TRUE)
    /\ Dispatched("pattern_data") =>
           /\ \A k \in OptionalPatternDataKeys :
                  (k \in DOMAIN request[1].params) <=> (args[1][k] # None)
           /\ ToggleSent(request[1].params, "quantity", args[1].quantity = TRUE)

\* A search was dispatched with an origin and the pattern_data toggle and
\* without a limit.
C11_Witness ==
    /\ Dispatched("search")
    /\ args[1].origin # None
    /\ args[1].pattern_data = TRUE
    /\ args[1].limit = None
    /\ "origin" \in DOMAIN request[1].params
    /\ "limit" \notin DOMAIN request[1].params

\* The inputs of search that have a default other than None.
DefaultedSearchKeys == {"currency", "sort", "order"}

\* The caller supplied input k of search: its value is not the signature's
\* default.
SuppliedToSearch(k) == args[1][k] # SearchDefaults(args[1].skin)[k]

\* The member of enum a wire value reads back to.
ReadEnum(enum, v) == CHOOSE m \in enum : m.value = v

\* What the entry of input k reads back to.
ReadBack(k, v) ==
    IF k = "currency" THEN ReadEnum(Currency, v)
    ELSE IF k = "sort" THEN ReadEnum(SortKey, v)
    ELSE IF k = "order" THEN ReadEnum(Order, v)
    ELSE IF k = "type" THEN Some(ReadEnum(ItemType, v))
    ELSE IF k = "origin" THEN Some(ReadEnum(Origin, v))
    ELSE IF k = "pattern_data" THEN v = "true"
    ELSE Some(v)

\* s is the whole number of seconds of the datetime ms, its fraction dropped.
WholeSecondsOf(s, ms) ==
    IF ms >= 0 THEN s * 1000 <= ms /\ ms < s * 1000 + 1000
    ELSE s * 1000 >= ms /\ ms > s * 1000 - 1000

----------------------------------------------------------------------------
(* Decoding the payload of a successful response.                          *)

\* The transport returned the payload of a search or pattern_data call to
\* the operation, which decoded it into the call's outcome.
Decoded(o) ==
    /\ Responded
    /\ op = Some(o)
    /\ outcome # None
    /\ transport[1].kind = "return"
    /\ transport[1].data.t = "dict"

Payload == transport[1].data

\* The fields the decoders read by subscript.
RequiredOfMeta == {"size", "total"}
RequiredOfScreenshots == {"inspect", "inspect_playside", "inspect_backside"}
RequiredOfPatternData == {PatternDataRequired[i] : i \in 1..Len(PatternDataRequired)}
RequiredOfSale ==
    {"buff_id", "csfloat", "wear", "type", "pattern", "price", "epoch",
     "steam_inspect_link", "origin", "screenshots"}

ListKey(o) == IF o = "search" THEN "sales" ELSE "data"

\* The value of field k of a JSON object, null when there is none.
Field(obj, k) == IF obj.t = "dict" /\ k \in DOMAIN obj.d THEN obj.d[k] ELSE JNull

Elements(obj) == IF obj.t = "list" THEN {obj.l[i] : i \in 1..Len(obj.l)} ELSE {}

MissingOf(obj, required) == IF obj.t = "dict" THEN required \ DOMAIN obj.d ELSE {}

MissingOfSale(sale) ==
    MissingOf(sale, RequiredOfSale)
    \cup MissingOf(Field(sale, "screenshots"), RequiredOfScreenshots)
    \cup MissingOf(Field(sale, "pattern_data"), RequiredOfPatternData)

\* The required fields that the payload of operation o lacks, at any depth.
MissingFields(o, payload) ==
    MissingOf(payload, {"meta", ListKey(o)})
    \cup MissingOf(Field(payload, "meta"), RequiredOfMeta)
    \cup UNION { IF o = "search" THEN MissingOfSale(e) ELSE MissingOf(e, RequiredOfPatternData) :
                 e \in Elements(Field(payload, ListKey(o))) }

\* A block of pattern data is present and is not an object of exactly fields.
MalformedBlock(pd, k, fields) ==
    Field(pd, k) # JNull /\ ~(Field(pd, k).t = "dict" /\ DOMAIN Field(pd, k).d = fields)

MalformedPatternData(pd) ==
    \/ MalformedBlock(pd, "screenshots", {"csbluegem_screenshot", "aq_oiled"})
    \/ MalformedBlock(pd, "extra",
                      {"similar_playside", "similar_backside", "csfloat_link", "search"})

\* Field k of the object is present and is no value of the enumeration.
UnknownMember(obj, k, enum) ==
    /\ obj.t = "dict"
    /\ k \in DOMAIN obj.d
    /\ ~\E m \in enum : obj.d[k] = JStr(m.value)

\* A field that is present cannot be decoded.
Undecodable(o, payload) ==
    \E e \in Elements(Field(payload, ListKey(o))) :
        IF o = "search"
        THEN \/ UnknownMember(e, "type", ItemType)
             \/ UnknownMember(e, "origin", Origin)
             \/ MalformedPatternData(Field(e, "pattern_data"))
        ELSE MalformedPatternData(e)

DecodedCall == IF Decoded("search") THEN "search" ELSE "pattern_data"

MirrorsPatternData(pd, block) ==
    /\ \A k \in RequiredOfPatternData : pd.stats[k] = block.d[k]
    /\ (pd.screenshots # None) <=> (Field(block, "screenshots") # JNull)
    /\ pd.screenshots # None => pd.screenshots[1] = Field(block, "screenshots").d
    /\ (pd.extra # None) <=> (Field(block, "extra") # JNull)
    /\ pd.extra # None => pd.extra[1] = Field(block, "extra").d

MirrorsSale(sale, obj) ==
    /\ (sale.pattern_data # None) <=> (Field(obj, "pattern_data") # JNull)
    /\ sale.pattern_data # None =>
           MirrorsPatternData(sale.pattern_data[1], Field(obj, "pattern_data"))

Returned(o) == Decoded(o) /\ outcome[1].kind = "return"

\* C14: optional nested substructures mirror the payload. A decoded Sale has
\* pattern data, with the fields of the source, exactly when its object has a
\* pattern_data block; a decoded PatternData has screenshots and extra
\* exactly when its object has those blocks; a payload that only lacks
\* optional blocks decodes without error.
C14_OptionalBlocksMirrorPayload ==
    /\ Returned("search") =>
           /\ Len(outcome[1].data.sales) = Len(Payload.d["sales"].l)
           /\ \A i \in 1..Len(outcome[1].data.sales) :
                  MirrorsSale(outcome[1].data.sales[i], Payload.d["sales"].l[i])
    /\ Returned("pattern_data") =>
           /\ Len(outcome[1].data.pattern_data) = Len(Payload.d["data"].l)
           /\ \A i \in 1..Len(outcome[1].data.pattern_data) :
                  MirrorsPatternData(outcome[1].data.pattern_data[i], Payload.d["data"].l[i])
    /\ \A o \in {"search", "pattern_data"} :
           (Decoded(o) /\ MissingFields(o, Payload) = {} /\ ~Undecodable(o, Payload)) =>
               outcome[1].kind = "return"

\* A search returned two sales, the first without pattern data and the
\* second with it.
C14_Witness ==
    /\ Returned("search")
    /\ Len(outcome[1].data.sales) = 2
    /\ outcome[1].data.sales[1].pattern_data = None
    /\ outcome[1].data.sales[2].pattern_data # None
    /\ outcome[1].data.sales[2].pattern_data[1].extra = None

----------------------------------------------------------------------------
(* The inspect accessor of Screenshots.                                    *)

\* The exceptions of the client's taxonomy (errors.py) and those a decoder
\* raises.
Taxonomy ==
    {"BlueGemError", "BadArgument", "HTTPException", "NotFound", "ServerError",
     "InvalidRequest"}
DecodeFailures == {"KeyError", "TypeError", "ValueError", "DecodeError"}

IntegrityFailure(r) ==
    /\ r.kind = "raise"
    /\ r.exc \notin Taxonomy \cup DecodeFailures

\* C15 as claimed: inspect returns the primary inspect field when it is
\* present (not null), otherwise the playside field when that is present, and
\* raises a data-integrity failure when both are absent.
C15_InspectByPresence ==
    Applied("Screenshots.inspect") =>
        IF vin.x._inspect # JNull THEN vout[1] = Return(vin.x._inspect)
        ELSE IF vin.x.inspect_playside # JNull THEN vout[1] = Return(vin.x.inspect_playside)
        ELSE IntegrityFailure(vout[1])

\* A link that is a non-empty string.
NonEmpty(v) == v # JNull /\ v # JStr("")

\* C15: inspect returns the primary inspect field when it is present and not
\* empty, otherwise the playside field when that is present and not empty,
\* and otherwise raises RuntimeError, which is neither a decode failure nor
\* an error of the client's taxonomy; it never returns null.
C15_InspectByTruth ==
    Applied("Screenshots.inspect") =>
        /\ IF NonEmpty(vin.x._inspect) THEN vout[1] = Return(vin.x._inspect)
           ELSE IF NonEmpty(vin.x.inspect_playside)
           THEN vout[1] = Return(vin.x.inspect_playside)
           ELSE IntegrityFailure(vout[1]) /\ vout[1].exc = "RuntimeError"
        /\ vout[1].kind = "return" => vout[1].data # JNull

\* The primary field is the empty string and the playside link was returned.
C15_Witness ==
    /\ Applied("Screenshots.inspect")
    /\ vin.x._inspect = JStr("")
    /\ vout[1].kind = "return"
    /\ vout[1].data = vin.x.inspect_playside

----------------------------------------------------------------------------
(* The lifetime of the client and its calls.                               *)

\* The lifetime has ended: close was called, or the block was left.
Ended == ExplicitCloses > 0 \/ scope = "exited"

\* A call made in the lifetime raised.
SomeTaskRaised ==
    \E t \in 1..MaxTasks : tasks[t].outcome # None /\ tasks[t].outcome[1].kind = "raise"

SamePricecheck(t, u) ==
    /\ t # u
    /\ tasks[t].op = Some("pricecheck")
    /\ tasks[u].op = Some("pricecheck")
    /\ tasks[t].args = tasks[u].args

\* C17: two price checks with identical arguments issue two requests with
\* identical method, URL and parameters, and no call, whether it returned or
\* failed, changes a field of the client's transport: base URL, session
\* reference and user agent stay as constructed.
C17_PricecheckRepeatsRequest ==
    /\ http = HTTPClient
    /\ sent = Cardinality({t \in 1..MaxTasks : tasks[t].request # None})
    /\ \A t, u \in 1..MaxTasks :
           (SamePricecheck(t, u) /\ tasks[t].request # None) =>
               /\ tasks[u].request # None
               /\ tasks[u].request[1].method = tasks[t].request[1].method
               /\ tasks[u].request[1].url = tasks[t].request[1].url
               /\ tasks[u].request[1].params = tasks[t].request[1].params

\* Two identical price checks were made; the first got its price, the second
\* a 503.
C17_Witness ==
    /\ SamePricecheck(1, 2)
    /\ sent = 2
    /\ tasks[1].outcome = Some(Return(1500))
    /\ tasks[2].outcome # None
    /\ tasks[2].outcome[1].exc = "ServerError"
    /\ tasks[1].request = tasks[2].request

\* The request call t made is the one its operation builds from its own
\* arguments.
OwnRequest(t) ==
    tasks[t].request =
        (IF BuilderOf(tasks[t].op[1], tasks[t].args[1]).raised THEN None
         ELSE Some([method |-> "GET",
                    url |-> BASE_URL \o (IF tasks[t].op[1] = "search" THEN "/search"
                                          ELSE IF tasks[t].op[1] = "pattern_data"
                                          THEN "/patterndata"
                                          ELSE "/pricecheck"),
                    headers |-> [x \in {"User-Agent"} |-> HTTPClient.user_agent],
                    params |-> BuilderOf(tasks[t].op[1], tasks[t].args[1]).params]))

\* The outcome of call t is the one of its own response, of its own local
\* failure or of its own cancellation.
OwnOutcome(t) ==
    IF tasks[t].pc = "awaiting" THEN tasks[t].outcome = None /\ tasks[t].response = None
    ELSE IF tasks[t].pc = "cancelled"
    THEN /\ tasks[t].outcome = Some(Raised("CancelledError", None, JStr("")))
         /\ tasks[t].response = None
    ELSE IF tasks[t].response # None
    THEN tasks[t].outcome =
             Some(operation_outcome(tasks[t].op[1], response_outcome(tasks[t].response[1])))
    ELSE IF tasks[t].request = None
    THEN tasks[t].outcome # None /\ tasks[t].outcome[1].exc = "BadArgument"
    ELSE tasks[t].outcome = Some(Raised("ClientError", None, JStr("")))

\* C18: in every interleaving of the calls in flight on one client, the
\* request of each call is built from its own arguments and its outcome comes
\* from its own response; a call that was cancelled or that failed leaves the
\* request and the outcome of the others as they are: a step of one call
\* changes the record of no other call.
C18_CallsAreIndependent ==
    [][\A t \in 1..MaxTasks :
           tasks'[t] # tasks[t] =>
               /\ \A u \in (1..MaxTasks) \ {t} : tasks'[u] = tasks[u]
               /\ (OwnRequest(t) /\ OwnOutcome(t))']_vars

\* Two calls were in flight together: the search was cancelled, and the
\* price check then got its own response.
C18_Witness ==
    /\ tasks[1].pc = "cancelled"
    /\ tasks[1].op = Some("search")
    /\ tasks[2].op = Some("pricecheck")
    /\ tasks[2].outcome = Some(Return(1500))
    /\ sent = 2

\* The wear and pattern of a sale satisfy the Sale invariant.
InSaleDomain(wear, pattern) ==
    /\ ~FloatLe(wear.n, Zero)
    /\ FloatLe(wear.n, One)
    /\ 0 <= pattern.n
    /\ pattern.n <= 1000

\* C19 as claimed: every Sale returned by search has 0 < wear <= 1 and
\* 0 <= pattern <= 1000, whatever successful payload the API sent.
C19_SaleInvariant ==
    Returned("search") =>
        \A i \in 1..Len(outcome[1].data.sales) :
            InSaleDomain(outcome[1].data.sales[i].wear, outcome[1].data.sales[i].pattern)

\* C19: every Sale returned by search carries the wear and the pattern of its
\* payload object unchanged, so it satisfies the Sale invariant exactly when
\* the payload does; a payload whose fields are all there and decodable is
\* returned whatever its wear and pattern are.
C19_SaleCarriesPayload ==
    /\ Returned("search") =>
           \A i \in 1..Len(outcome[1].data.sales) :
               /\ outcome[1].data.sales[i].wear = Payload.d["sales"].l[i].d["wear"]
               /\ outcome[1].data.sales[i].pattern = Payload.d["sales"].l[i].d["pattern"]
               /\ InSaleDomain(outcome[1].data.sales[i].wear,
                               outcome[1].data.sales[i].pattern)
                      <=> InSaleDomain(Payload.d["sales"].l[i].d["wear"],
                                       Payload.d["sales"].l[i].d["pattern"])
    /\ (Decoded("search") /\ MissingFields("search", Payload) = {}
          /\ ~Undecodable("search", Payload)) =>
           Returned("search")

\* A search returned a sale whose wear is 0.
C19_Witness ==
    /\ Returned("search")
    /\ Len(outcome[1].data.sales) = 1
    /\ outcome[1].data.sales[1].wear = JNum(Zero)

----------------------------------------------------------------------------
(* The representation of the payload.                                      *)

DeclaredJson(resp) == resp.content_type = Some("application/json")

\* The representation the declared content type selects.
Representation(resp) ==
    IF resp.content_type = Some("application/octet-stream") THEN Bytes(resp.body)
    ELSE IF DeclaredJson(resp) THEN resp.body.json
    ELSE Text(resp.body)

\* C20: the transport picks the representation of the payload from the
\* declared content type alone: application/octet-stream gives the raw
\* bytes, application/json the parsed JSON value, every other content type,
\* or none, the decoded text, whatever the body is. The message check, and
\* the failure to parse, can fire only for a response declared
\* application/json; for any other the message of an HTTPException is empty.
C20_RepresentationByContentType ==
    Responded =>
        /\ transport[1].kind = "return" => transport[1].data = Representation(response[1])
        /\ transport[1].exc \in {"InvalidRequest", "JSONDecodeError"} =>
               DeclaredJson(response[1])
        /\ (transport[1].exc = "HTTPException" /\ ~DeclaredJson(response[1])) =>
               transport[1].message = JStr("an unexpected error occurred: ")

\* A 200 declared application/json; charset=utf-8 whose body is a JSON
\* object with a message was returned as text.
C20_Witness ==
    /\ Responded
    /\ response[1].content_type = Some("application/json; charset=utf-8")
    /\ response[1].status = 200
    /\ response[1].body = MessageBody
    /\ transport[1] = Return(Text(MessageBody))

----------------------------------------------------------------------------
(* The exceptions of the package.                                          *)

\* The call ended with an exception the transport raised or let through.
TransportRaised ==
    /\ pc = "done"
    /\ transport # None
    /\ transport[1].kind = "raise"

\* BadArgument is a BlueGemError, is no HTTPException and carries no status.
BadArgumentApart ==
    (pc = "done" /\ outcome[1].kind = "raise" /\ outcome[1].exc = "BadArgument") =>
        /\ IsInstance("BadArgument", "BlueGemError")
        /\ ~IsInstance("BadArgument", "HTTPException")
        /\ outcome[1].code = None

\* C21 as claimed: every failure the transport raises is an HTTPException
\* that carries the status of the response, so that one handler for
\* HTTPException observes every remote failure; BadArgument is a
\* BlueGemError that is no HTTPException and carries no status.
C21_EveryFailureIsHTTPException ==
    /\ TransportRaised =>
           /\ IsInstance(transport[1].exc, "HTTPException")
           /\ IsInstance(transport[1].exc, "BlueGemError")
           /\ response # None
           /\ transport[1].code = Some(response[1].status)
    /\ BadArgumentApart

\* The transport has the payload of a response: it was received, and parsed
\* when it was declared application/json.
PayloadRead == response # None /\ json_text_or_bytes(response[1]).kind = "return"

\* C21: every failure the transport raises for a response whose payload it
\* could read is an HTTPException, and so a BlueGemError, that carries the
\* status of the response, and it reaches the caller unchanged; the failures
\* it lets through without a payload (a connection failure, a body declared
\* application/json that does not parse) are no BlueGemError and carry no
\* status; BadArgument is a BlueGemError that is no HTTPException and
\* carries no status.
C21_StatusFailuresAreHTTPException ==
    /\ (TransportRaised /\ PayloadRead) =>
           /\ IsInstance(transport[1].exc, "HTTPException")
           /\ IsInstance(transport[1].exc, "BlueGemError")
           /\ transport[1].code = Some(response[1].status)
           /\ outcome = transport
    /\ (TransportRaised /\ ~PayloadRead) =>
           /\ ~IsInstance(transport[1].exc, "BlueGemError")
           /\ transport[1].code = None
    /\ BadArgumentApart

\* A 404 without a message raised NotFound, which a handler for
\* HTTPException catches with the status 404.
C21_Witness ==
    /\ TransportRaised
    /\ response # None
    /\ response[1].status = 404
    /\ transport[1].exc = "NotFound"
    /\ IsInstance(transport[1].exc, "HTTPException")
    /\ transport[1].code = Some(404)

----------------------------------------------------------------------------
(* A session of the caller's.                                              *)

\* The calls whose request was handed to the session the HTTPClient holds.
Dispatches == {t \in 1..MaxTasks : tasks[t].request # None}

\* The caller's session is closed: the client holds it and has closed it.
CallerSessionClosed ==
    /\ supplied # None
    /\ http.session = supplied[1]
    /\ session.closed

\* C22: a client constructed with a session of the caller's holds that
\* session, hands every request to it, and closes it on close and on the exit
\* of the block exactly as it does a session it created: the session is open
\* until the lifetime ends and released once when it has ended; after the
\* client is closed the caller's session is closed.
C22_SuppliedSessionUsedAndClosed ==
    /\ http.session = (IF supplied # None THEN supplied[1] ELSE "session")
    /\ sent = Cardinality(Dispatches)
    /\ session.closed <=> Ended
    /\ session.releases = (IF Ended THEN 1 ELSE 0)
    /\ (supplied # None /\ Ended) => CallerSessionClosed

\* A client was given a session, a call was dispatched on it, and the exit of
\* the block closed the caller's session.
C22_Witness ==
    /\ supplied # None
    /\ scope = "exited"
    /\ Dispatches # {}
    /\ CallerSessionClosed

====
